---- MODULE Spec2Model ----
(***************************************************************************)
(* aclysma/prefab: the structured prefab deserializer (src/src/lib.rs),   *)
(* the per-component operations of the registry record and the registry   *)
(* itself (src/legion-prefab/src/registration.rs, prefab_cooked.rs).       *)
(*                                                                         *)
(* The deserializer is a pipeline of serde visitors that pulls a nested    *)
(* document from a streaming format and routes the leaf payloads to a      *)
(* caller-supplied Storage.  The model keeps                               *)
(*   doc    - the tokens the format has produced so far (the document, in  *)
(*            document order; entries a visitor never reads are recorded   *)
(*            as Skipped),                                                 *)
(*   stack  - the activations of the visitors (one frame per visit_map,    *)
(*            visit_seq, visit_enum or seed in progress),                  *)
(*   calls  - the Storage callbacks made so far, in the order made,        *)
(*   result - the outcome of the top-level call.                           *)
(* What MapAccess/SeqAccess/EnumAccess return is the input of each step.   *)
(* Data values have the shape their seed asks for (a sequence, a struct, a *)
(* payload the Storage accepts or refuses); an identifier value may fail   *)
(* to parse as a uuid.                                                     *)
(*                                                                         *)
(* The component operations work on                                        *)
(*   worlds   - the legion worlds handed to the operations,                *)
(*   last     - the last operation: its arguments, what it returned and    *)
(*              what it wrote to its serializer,                           *)
(* and the registry on                                                     *)
(*   registry - the registrations submitted, in submission order,          *)
(*   phase    - "load" while the static constructors run, "run" after,     *)
(*   seen     - what the iterations over the registry have yielded,        *)
(*   maps     - the lookup maps built from the last iteration.             *)
(* The remaining operations each keep their state in one record:           *)
(*   seqde    - ComponentSeqDeserializer::visit_seq: the input sequence,   *)
(*              the chunks get_next_storage hands out, the slots written,  *)
(*   cloning  - clone_components: the source column, the range, the        *)
(*              destination writer,                                        *)
(*   cooked   - CookedPrefab serialize / deserialize: the prefab, the      *)
(*              stream and the value returned.                             *)
(***************************************************************************)
EXTENDS Integers, Sequences, FiniteSets, TLC

VARIABLES doc, stack, calls, result, worlds, last, registry, phase, seen, maps,
          seqde, cloning, cooked

parseVars == <<doc, stack, calls, result>>
compVars == <<worlds, last>>
regVars == <<registry, phase, seen, maps>>

restVars == <<seqde, cloning, cooked>>

vars == <<parseVars, compVars, regVars, restVars>>

----------------------------------------------------------------------------
(* Bounds of the model *)

\* maps, sequences and unread entries of one document
MaxNodes == 8

\* uuid::Bytes values (PrefabUuid, EntityUuid and ComponentTypeUuid are all
\* 16-byte arrays)
Uuids == {"U1", "U2"}
\* leaf payloads (component data, component diff)
Payloads == {"d1"}
\* variant tags a document may carry
VariantTags == {"Entity", "PrefabRef", "Bogus"}

None == "None"

----------------------------------------------------------------------------
(* Tokens of the document *)

Tok(t, v) == [t |-> t, v |-> v]

Running == [kind |-> "Running", name |-> ""]
Ok == [kind |-> "Ok", name |-> ""]
Err(kind, name) == [kind |-> kind, name |-> name]

\* a visitor or seed activation; prefab_id is parent_id in the PrefabRef,
\* EntityOverride and ComponentOverride seeds
Frame(fn, prefab_id, prefab_ref_id, entity_id, component_id) ==
    [fn |-> fn, elem |-> "", pc |-> "keys", slot |-> None, prefab |-> FALSE,
     prefab_id |-> prefab_id, prefab_ref_id |-> prefab_ref_id,
     entity_id |-> entity_id, component_id |-> component_id]

Top == stack[Len(stack)]

Front(s) == SubSeq(s, 1, Len(s) - 1)

\* the size of the document read so far
Nodes == Cardinality({i \in 1..Len(doc) : doc[i].t \in {"Map", "Seq", "Skipped"}})

\* no world is at hand and nothing is registered
NoComponents == worlds = <<>> /\ last = <<>>
NoRegistry == registry = <<>> /\ phase = "run" /\ seen = <<>> /\ maps = <<>>
NoParse == doc = <<>> /\ stack = <<>> /\ calls = <<>> /\ result = Ok
NoSeq == seqde = <<>>
NoClone == cloning = <<>>
NoCooked == cooked = <<>>

Init ==
    /\ doc = <<Tok("Map", "")>>
    /\ stack = <<Frame("Prefab", None, None, None, None)>>
    /\ calls = <<>>
    /\ result = Running
    /\ NoComponents
    /\ NoRegistry
    /\ NoSeq /\ NoClone /\ NoCooked

----------------------------------------------------------------------------
(* Control flow shared by the visitors *)

\* the callbacks made so far are taken back
Fail_undo(d, kind, name) ==
    /\ doc' = d
    /\ stack' = <<>>
    /\ result' = Err(kind, name)
    /\ calls' = <<>>

\* `?` on an Err, or `return Err(..)`: the error unwinds every activation
\* and becomes the result of the top-level call
Fail(d, kind, name) ==
    /\ doc' = d
    /\ stack' = <<>>
    /\ result' = Err(kind, name)
    /\ UNCHANGED calls

\* a seed's deserialize is entered: its activation goes on top
Push(d, f) ==
    /\ doc' = d
    /\ stack' = Append(stack, f)
    /\ UNCHANGED <<calls, result>>

\* `return Ok(..)` of a nested activation: the caller resumes after its
\* next_value_seed / next_element_seed / newtype_variant_seed
Return(d) ==
    /\ doc' = d
    /\ stack' = [Front(stack) EXCEPT ![Len(stack) - 1].pc = "ret"]
    /\ UNCHANGED <<calls, result>>

\* the entries a format may still hold when a visitor returns before
\* next_key() gave None
Trailing(idKey, dataKey) ==
    IF Nodes < MaxNodes
    THEN {<<>>} \cup {<<Tok("Skipped", k)>> : k \in {idKey, dataKey, "bogus"}}
    ELSE {<<>>}

\* the visitor goes on to the next key and rejects what it finds there
EndStruct_reads_on(idKey, dataKey) ==
    \E rest \in Trailing(idKey, dataKey) :
        LET d == doc \o rest \o <<Tok("EndMap", "")>> IN
        \/ rest = <<>> /\ Return(d)
        \/ rest # <<>> /\ Fail(d, "UnknownField", rest[1].v)

\* deserialize_struct after visit_map returned Ok: the format closes the
\* struct.  Entries the visitor left unread are the format's business: it
\* may skip them or reject the document (the format D is a type parameter).
EndStruct(idKey, dataKey) ==
    \E rest \in Trailing(idKey, dataKey) :
        LET d == doc \o rest \o <<Tok("EndMap", "")>> IN
        \/ Return(d)
        \/ rest # <<>> /\ Fail(d, "Format", "trailing entries")

\* map.next_value::<uuid::Uuid>()? into the identifier slot
ReadIdentifier(idKey) ==
    LET d == Append(doc, Tok("Key", idKey)) IN
    \/ \E v \in Uuids :
          /\ doc' = Append(d, Tok("Uuid", v))
          /\ stack' = [stack EXCEPT ![Len(stack)].slot = v]
          /\ UNCHANGED <<calls, result>>
    \/ Fail(Append(d, Tok("Bad", "")), "InvalidValue", idKey)

\* the seed is built without looking at the slot
NextValueSeed_unchecked(dataKey, orderMsg, seed, open) ==
    /\ open # <<>> => Nodes < MaxNodes
    /\ Push(Append(doc, Tok("Key", dataKey)) \o open, seed)

\* map.next_value_seed(Seed { id: slot.ok_or(missing_field(msg))?, .. })?
\* the ok_or(..)? is evaluated while the seed is built, before the value is
\* touched
NextValueSeed(dataKey, orderMsg, seed, open) ==
    LET d == Append(doc, Tok("Key", dataKey)) IN
    IF Top.slot = None
    THEN Fail(d, "MissingField", orderMsg)
    ELSE /\ open # <<>> => Nodes < MaxNodes
         /\ Push(d \o open, seed)

\* the visit_map shared by the five scopes that return at their data key
StructVisitMap(fn, idKey, dataKey, dupName, orderMsg, missingName, seed, open) ==
    /\ UNCHANGED <<compVars, regVars, restVars>>
    /\ result = Running
    /\ stack # <<>>
    /\ Top.fn = fn
    /\ \/ /\ Top.pc = "keys"
          /\ \/ \* Some(identifier key)
                IF Top.slot # None
                THEN Fail(Append(doc, Tok("Key", idKey)), "DuplicateField", dupName)
                ELSE ReadIdentifier(idKey)
             \/ \* Some(data key)
                NextValueSeed(dataKey, orderMsg, seed, open)
             \/ \* a key that is no variant of the field enum
                Fail(Append(doc, Tok("Key", "bogus")), "UnknownField", "bogus")
             \/ \* None
                Fail(Append(doc, Tok("EndMap", "")), "MissingField", missingName)
       \/ /\ Top.pc = "ret" \* return Ok(..) right after the data value
          /\ EndStruct(idKey, dataKey)

----------------------------------------------------------------------------
(* The seeds each scope builds for its data value *)

PrefabObjectSeed(self, prefab_id) ==
    Frame("Object", prefab_id, None, None, None)

EntityComponentSeed(self, entity_id) ==
    Frame("Component", self.prefab_id, None, entity_id, None)

\* prefab_id and entity_id change places
EntityComponentDataSeed_swapped(self, component_id) ==
    Frame("ComponentData", self.entity_id, None, self.prefab_id, component_id)

EntityComponentDataSeed(self, component_id) ==
    Frame("ComponentData", self.prefab_id, None, self.entity_id, component_id)

EntityPrefabObject(self) ==
    Frame("Entity", self.prefab_id, None, None, None)

PrefabRefSeed(self) ==
    Frame("PrefabRef", self.prefab_id, None, None, None)

EntityOverrideSeed(self, prefab_id) ==
    Frame("EntityOverride", self.prefab_id, prefab_id, None, None)

\* the override is filed under the referenced prefab's id
ComponentOverrideSeed_wrong_scope(self, entity_id) ==
    Frame("ComponentOverride", self.prefab_id, self.prefab_ref_id,
          self.prefab_ref_id, None)

ComponentOverrideSeed(self, entity_id) ==
    Frame("ComponentOverride", self.prefab_id, self.prefab_ref_id, entity_id, None)

\* parent_id and prefab_ref_id change places
ComponentOverrideDataSeed_swapped(self, component_type_id) ==
    Frame("ComponentOverrideData", self.prefab_ref_id, self.prefab_id,
          self.entity_id, component_type_id)

ComponentOverrideDataSeed(self, component_type_id) ==
    Frame("ComponentOverrideData", self.prefab_id, self.prefab_ref_id,
          self.entity_id, component_type_id)

\* SeqDeserializer(seed): the activation of its visit_seq
SeqDeserializer(seed) == [seed EXCEPT !.fn = "Seq", !.elem = seed.fn]

OpenSeq == <<Tok("Seq", "")>>

----------------------------------------------------------------------------
(* The visitors *)

\* the value of the objects field is dropped
SetPrefab_lost(f) == [f EXCEPT !.pc = "keys"]

\* prefab = Some(map.next_value_seed(..)?)
SetPrefab(f) == [f EXCEPT !.prefab = TRUE, !.pc = "keys"]

\* the visitor returns right after the objects value, as the other five do
PrefabDeserializer_visit_map_once ==
    /\ UNCHANGED <<compVars, regVars, restVars>>
    /\ result = Running
    /\ stack # <<>>
    /\ Top.fn = "Prefab"
    /\ \/ /\ Top.pc = "keys"
          /\ \/ IF Top.slot # None
                THEN Fail(Append(doc, Tok("Key", "id")), "DuplicateField", "id")
                ELSE ReadIdentifier("id")
             \/ NextValueSeed("objects",
                    "prefab ID must be serialized before prefab objects",
                    SeqDeserializer(PrefabObjectSeed(Top, Top.slot)), OpenSeq)
             \/ Fail(Append(doc, Tok("Key", "bogus")), "UnknownField", "bogus")
             \/ Fail(Append(doc, Tok("EndMap", "")), "MissingField", "objects")
       \/ /\ Top.pc = "ret"
          /\ \E rest \in Trailing("id", "objects") :
                /\ doc' = doc \o rest \o <<Tok("EndMap", "")>>
                /\ stack' = <<>>
                /\ result' = Ok
                /\ UNCHANGED calls

PrefabDeserializer_visit_map ==
    /\ UNCHANGED <<compVars, regVars, restVars>>
    /\ result = Running
    /\ stack # <<>>
    /\ Top.fn = "Prefab"
    /\ \/ /\ Top.pc = "keys"
          /\ \/ \* PrefabField::Id
                IF Top.slot # None
                THEN Fail(Append(doc, Tok("Key", "id")), "DuplicateField", "id")
                ELSE ReadIdentifier("id")
             \/ \* PrefabField::Objects
                NextValueSeed("objects",
                    "prefab ID must be serialized before prefab objects",
                    SeqDeserializer(PrefabObjectSeed(Top, Top.slot)), OpenSeq)
             \/ \* a key that is no variant of PrefabField
                Fail(Append(doc, Tok("Key", "bogus")), "UnknownField", "bogus")
             \/ \* None: prefab.ok_or(missing_field("objects"))
                IF Top.prefab
                THEN /\ doc' = Append(doc, Tok("EndMap", ""))
                     /\ stack' = <<>>
                     /\ result' = Ok
                     /\ UNCHANGED calls
                ELSE Fail(Append(doc, Tok("EndMap", "")), "MissingField", "objects")
       \/ /\ Top.pc = "ret" \* prefab = Some(..); the loop goes on
          /\ stack' = [stack EXCEPT ![Len(stack)] = SetPrefab(Top)]
          /\ UNCHANGED <<doc, calls, result>>

SeqDeserializer_visit_seq ==
    /\ UNCHANGED <<compVars, regVars, restVars>>
    /\ result = Running
    /\ stack # <<>>
    /\ Top.fn = "Seq"
    /\ \/ \* Some(_): the seed is cloned for the element
          /\ Nodes < MaxNodes
          /\ LET seed == [Top EXCEPT !.fn = Top.elem, !.elem = "", !.pc = "keys"]
                 open == IF Top.elem = "Object" THEN <<>> ELSE <<Tok("Map", "")>>
             IN Push(doc \o open, seed)
       \/ \* None: Ok(Prefab {})
          Return(Append(doc, Tok("EndSeq", "")))

\* every unknown tag is taken for an Entity
ObjectVariant_lenient(tag) ==
    IF tag = "PrefabRef" THEN tag ELSE "Entity"

\* variant(data)?: the derived Deserialize of ObjectVariant knows two tags
ObjectVariant(tag) ==
    IF tag \in {"Entity", "PrefabRef"} THEN tag ELSE "Err"

PrefabObjectDeserializer_visit_enum ==
    /\ UNCHANGED <<compVars, regVars, restVars>>
    /\ result = Running
    /\ stack # <<>>
    /\ Top.fn = "Object"
    /\ \/ /\ Top.pc = "keys"
          /\ \E tag \in VariantTags :
                LET d == Append(doc, Tok("Variant", tag)) IN
                CASE ObjectVariant(tag) = "Entity" ->
                        Push(Append(d, Tok("Map", "")), EntityPrefabObject(Top))
                  [] ObjectVariant(tag) = "PrefabRef" ->
                        Push(Append(d, Tok("Map", "")), PrefabRefSeed(Top))
                  [] OTHER -> Fail(d, "UnknownVariant", tag)
       \/ /\ Top.pc = "ret" \* Ok(())
          /\ Return(doc)

EntityPrefabObject_visit_map ==
    StructVisitMap("Entity", "id", "components", "id",
        "entity id must be serialized before components", "components",
        SeqDeserializer(EntityComponentSeed(Top, Top.slot)), OpenSeq)

EntityComponent_visit_map ==
    StructVisitMap("Component", "type", "data", "type",
        "component type must be serialized before data", "data",
        EntityComponentDataSeed(Top, Top.slot), <<>>)

PrefabRef_visit_map ==
    StructVisitMap("PrefabRef", "prefab_id", "entity_overrides", "id",
        "component type must be serialized before data", "component_overrides",
        SeqDeserializer(EntityOverrideSeed(Top, Top.slot)), OpenSeq)

EntityOverride_visit_map ==
    StructVisitMap("EntityOverride", "entity_id", "component_overrides", "id",
        "entity_id must be serialized before component_overrides",
        "component_overrides",
        SeqDeserializer(ComponentOverrideSeed(Top, Top.slot)), OpenSeq)

ComponentOverride_visit_map ==
    StructVisitMap("ComponentOverride", "component_type", "diff",
        "component_type", "component_type must be serialized before diff",
        "component_overrides",
        ComponentOverrideDataSeed(Top, Top.slot), <<>>)

----------------------------------------------------------------------------
(* The leaf seeds and the Storage *)

\* a diff inside a prefab reference is reported as the reference itself
Call_add_prefab_ref(fn, self, at) ==
    [fn |-> IF fn = "apply_component_diff" THEN "add_prefab_ref" ELSE fn,
     prefab |-> self.prefab_id, prefab_ref |-> self.prefab_ref_id,
     entity |-> self.entity_id, component_type |-> self.component_id,
     at |-> at]

Call(fn, self, at) ==
    [fn |-> fn, prefab |-> self.prefab_id, prefab_ref |-> self.prefab_ref_id,
     entity |-> self.entity_id, component_type |-> self.component_id,
     at |-> at]

\* the newest callback is put before the earlier ones
Invoke_first(cs, c) == <<c>> \o cs

\* the callback is entered with the stream as it stands
Invoke(cs, c) == Append(cs, c)

EntityComponentData_deserialize ==
    /\ UNCHANGED <<compVars, regVars, restVars>>
    /\ result = Running
    /\ stack # <<>>
    /\ Top.fn = "ComponentData"
    /\ Top.pc = "keys"
    /\ calls' = Invoke(calls, Call("deserialize_component", Top, Len(doc) + 1))
    /\ stack' = [stack EXCEPT ![Len(stack)].pc = "storage"]
    /\ UNCHANGED <<doc, result>>

ComponentOverrideData_deserialize ==
    /\ UNCHANGED <<compVars, regVars, restVars>>
    /\ result = Running
    /\ stack # <<>>
    /\ Top.fn = "ComponentOverrideData"
    /\ Top.pc = "keys"
    /\ calls' = Invoke(calls, Call("apply_component_diff", Top, Len(doc) + 1))
    /\ stack' = [stack EXCEPT ![Len(stack)].pc = "storage"]
    /\ UNCHANGED <<doc, result>>

\* the Storage implementation consumes the payload from the stream it was
\* handed and returns Ok(()) or an error
Storage_return ==
    /\ UNCHANGED <<compVars, regVars, restVars>>
    /\ result = Running
    /\ stack # <<>>
    /\ Top.pc = "storage"
    /\ \E d \in Payloads :
          \/ Return(Append(doc, Tok("Leaf", d)))
          \/ Fail(Append(doc, Tok("Leaf", d)), "Custom", "storage")

Next ==
    \/ PrefabDeserializer_visit_map
    \/ SeqDeserializer_visit_seq
    \/ PrefabObjectDeserializer_visit_enum
    \/ EntityPrefabObject_visit_map
    \/ EntityComponent_visit_map
    \/ EntityComponentData_deserialize
    \/ PrefabRef_visit_map
    \/ EntityOverride_visit_map
    \/ ComponentOverride_visit_map
    \/ ComponentOverrideData_deserialize
    \/ Storage_return

Spec == Init /\ [][Next]_vars

----------------------------------------------------------------------------
(* The document as a tree: scopes, identifiers and data fields, read off   *)
(* the tokens alone (spec.md section 3, "Structured Prefab Document")      *)

RECURSIVE Chains(_, _)
\* for each of the first i tokens, the maps and sequences open after it,
\* outermost first
Chains(d, i) ==
    IF i = 0 THEN <<>>
    ELSE LET p == Chains(d, i - 1)
             s == IF i = 1 THEN <<>> ELSE p[i - 1]
         IN Append(p, CASE d[i].t \in {"Map", "Seq"} -> Append(s, i)
                        [] d[i].t \in {"EndMap", "EndSeq"} -> Front(s)
                        [] OTHER -> s)

\* the kind of node a chain of open brackets ends in
ScopeOfChain(d, c) ==
    CASE Len(c) = 1 -> "Prefab"
      [] Len(c) = 3 -> IF d[c[3] - 1].v = "Entity" THEN "Entity" ELSE "PrefabRef"
      [] Len(c) = 5 -> IF d[c[3] - 1].v = "Entity" THEN "Component"
                       ELSE "EntityOverride"
      [] Len(c) = 7 -> "ComponentOverride"
      [] OTHER -> "Seq"

IdKeyOf(scope) ==
    CASE scope = "Prefab" -> "id"
      [] scope = "Entity" -> "id"
      [] scope = "Component" -> "type"
      [] scope = "PrefabRef" -> "prefab_id"
      [] scope = "EntityOverride" -> "entity_id"
      [] scope = "ComponentOverride" -> "component_type"
      [] OTHER -> "?"

DataKeyOf(scope) ==
    CASE scope = "Prefab" -> "objects"
      [] scope = "Entity" -> "components"
      [] scope = "Component" -> "data"
      [] scope = "PrefabRef" -> "entity_overrides"
      [] scope = "EntityOverride" -> "component_overrides"
      [] scope = "ComponentOverride" -> "diff"
      [] OTHER -> "?"

\* the entries (read or left unread) that sit directly in map m
EntriesOf(d, ch, m) ==
    {j \in (m + 1)..Len(d) :
        /\ d[j].t \in {"Key", "Skipped"}
        /\ ch[j] # <<>>
        /\ ch[j][Len(ch[j])] = m}

\* the value of map m's identifier field among the tokens before position i
IdOf(d, ch, m, i) ==
    LET k == IdKeyOf(ScopeOfChain(d, ch[m]))
        ks == {j \in (m + 1)..(i - 2) :
                  /\ d[j] = Tok("Key", k)
                  /\ ch[j][Len(ch[j])] = m
                  /\ d[j + 1].t = "Uuid"}
    IN IF ks = {} THEN None
       ELSE d[(CHOOSE j \in ks : \A x \in ks : j <= x) + 1].v

\* the data keys of the maps of one scope, i.e. the leaves' places
DataKeys(d, ch, scope) ==
    {j \in 1..Len(d) :
        /\ d[j] = Tok("Key", DataKeyOf(scope))
        /\ ScopeOfChain(d, ch[j]) = scope}

\* the data keys that were read while their map's identifier was missing
Disordered(d, ch) ==
    {j \in 1..Len(d) :
        /\ d[j].t = "Key"
        /\ d[j].v = DataKeyOf(ScopeOfChain(d, ch[j]))
        /\ IdOf(d, ch, ch[j][Len(ch[j])], j) = None}

\* every identifier precedes its data field
WellOrdered(d) == Disordered(d, Chains(d, Len(d))) = {}

\* the callback the document asks for at the data key j of a leaf scope
Routed(d, ch, j) ==
    LET c == ch[j] IN
    IF Len(c) = 5
    THEN [fn |-> "deserialize_component",
          prefab |-> IdOf(d, ch, c[1], j), prefab_ref |-> None,
          entity |-> IdOf(d, ch, c[3], j),
          component_type |-> IdOf(d, ch, c[5], j),
          at |-> j + 1]
    ELSE [fn |-> "apply_component_diff",
          prefab |-> IdOf(d, ch, c[1], j), prefab_ref |-> IdOf(d, ch, c[3], j),
          entity |-> IdOf(d, ch, c[5], j),
          component_type |-> IdOf(d, ch, c[7], j),
          at |-> j + 1]

RECURSIVE InOrder(_, _, _)
\* the callbacks for a set of data keys, in document order
InOrder(d, ch, js) ==
    IF js = {} THEN <<>>
    ELSE LET j == CHOOSE x \in js : \A y \in js : x <= y
         IN <<Routed(d, ch, j)>> \o InOrder(d, ch, js \ {j})

\* a leaf seed that has been entered but has not called the Storage yet
Entering ==
    /\ stack # <<>>
    /\ Top.fn \in {"ComponentData", "ComponentOverrideData"}
    /\ Top.pc = "keys"

\* the data keys whose value has been handed on
Reached(ch, scope) ==
    DataKeys(doc, ch, scope) \ (IF Entering THEN {Len(doc)} ELSE {})

CallsOf(fn) == SelectSeq(calls, LAMBDA c : c.fn = fn)

----------------------------------------------------------------------------
(* C1: in a document whose identifiers precede their data fields, every    *)
(* Component node {type: C, data: d} of Entity E of Prefab P causes        *)
(* exactly one deserialize_component(P, E, C, stream), the stream standing *)
(* at d and untouched; deserialize_component is called for nothing else.   *)
C1_ComponentRouting ==
    LET ch == Chains(doc, Len(doc)) IN
    Disordered(doc, ch) = {} =>
        /\ CallsOf("deserialize_component")
              = InOrder(doc, ch, Reached(ch, "Component"))
        /\ \A i \in 1..Len(calls) :
              calls[i].fn = "deserialize_component" =>
                 /\ doc[calls[i].at - 1] = Tok("Key", "data")
                 /\ calls[i].at <= Len(doc) => doc[calls[i].at].t = "Leaf"

C1_Witness ==
    /\ result = Ok
    /\ Len(CallsOf("deserialize_component")) = 2
    /\ WellOrdered(doc)

(* C2: in a well-ordered document, every ComponentOverride node            *)
(* {component_type: C, diff: d} of EntityOverride E of PrefabRef R of      *)
(* Prefab P causes exactly one apply_component_diff(P, R, E, C, stream),   *)
(* the stream standing at d; apply_component_diff is called for nothing    *)
(* else.                                                                   *)
C2_OverrideRouting ==
    LET ch == Chains(doc, Len(doc)) IN
    Disordered(doc, ch) = {} =>
        /\ CallsOf("apply_component_diff")
              = InOrder(doc, ch, Reached(ch, "ComponentOverride"))
        /\ \A i \in 1..Len(calls) :
              calls[i].fn = "apply_component_diff" =>
                 /\ doc[calls[i].at - 1] = Tok("Key", "diff")
                 /\ calls[i].at <= Len(doc) => doc[calls[i].at].t = "Leaf"

C2_Witness ==
    /\ result = Ok
    /\ Len(CallsOf("apply_component_diff")) = 1
    /\ WellOrdered(doc)

(* C3: Storage callbacks are made in document order and never reordered:   *)
(* when leaf A precedes leaf B, the callback for A has returned before the *)
(* callback for B is made.                                                 *)
C3_DocumentOrder ==
    /\ \A i, j \in 1..Len(calls) :
          i < j => /\ calls[i].at < calls[j].at
                   /\ calls[i].at <= Len(doc)
                   /\ doc[calls[i].at].t = "Leaf"
    /\ \A k \in 1..Len(doc) :
          doc[k].t = "Leaf" => \E i \in 1..Len(calls) : calls[i].at = k
    /\ Cardinality({k \in 1..Len(stack) : stack[k].pc = "storage"}) <= 1

C3_Witness ==
    /\ result = Ok
    /\ Len(calls) = 2
    /\ calls[1].at < calls[2].at

\* the identifiers of the maps of the given scopes that are open now
OpenIds(ch, scopes) ==
    LET c == ch[Len(doc)] IN
    {IdOf(doc, ch, c[k], Len(doc) + 2) :
        k \in {x \in 1..Len(c) : /\ doc[c[x]].t = "Map"
                                 /\ ScopeOfChain(doc, ch[c[x]]) \in scopes}}

(* C4: every callback carries the identifiers of its own enclosing scopes  *)
(* (entity id of the containing Entity or EntityOverride, prefab-ref id of *)
(* the enclosing PrefabRef, prefab id of the enclosing Prefab, component   *)
(* type of the leaf's own scope), and no activation holds an identifier of *)
(* a scope that has closed.                                                *)
C4_OwnScopes ==
    LET ch == Chains(doc, Len(doc)) IN
    /\ \A i \in 1..Len(calls) : calls[i] = Routed(doc, ch, calls[i].at - 1)
    /\ \A k \in 1..Len(stack) :
          /\ stack[k].prefab_id \in {None} \cup OpenIds(ch, {"Prefab"})
          /\ stack[k].prefab_ref_id \in {None} \cup OpenIds(ch, {"PrefabRef"})
          /\ stack[k].entity_id
                \in {None} \cup OpenIds(ch, {"Entity", "EntityOverride"})
          /\ stack[k].component_id
                \in {None} \cup OpenIds(ch, {"Component", "ComponentOverride"})

C4_Witness ==
    /\ stack # <<>>
    /\ Len(calls) = 2
    /\ calls[1].entity # calls[2].entity
    /\ calls[1].component_type # calls[2].component_type

(* C5: in every scope, a data key met while the identifier slot is empty   *)
(* fails the parse with an error, and no Storage callback is made for      *)
(* anything inside that data field.                                        *)
C5_DataNeedsIdentifier ==
    \A j \in Disordered(doc, Chains(doc, Len(doc))) :
        /\ result.kind \notin {"Running", "Ok"}
        /\ stack = <<>>
        /\ j = Len(doc)
        /\ \A i \in 1..Len(calls) : calls[i].at < j

C5_Witness ==
    /\ ~WellOrdered(doc)
    /\ Len(calls) = 1
    /\ doc[Len(doc)] = Tok("Key", "diff")

(* C6: a document whose data field precedes its identifier fails with the *)
(* error kind FieldOrder(identifier), e.g. FieldOrder("id") for            *)
(* {objects: [], id: P1}, a kind different from MissingField.              *)
C6_FieldOrderKind ==
    LET ch == Chains(doc, Len(doc)) IN
    \A j \in Disordered(doc, ch) :
        result = Err("FieldOrder", IdKeyOf(ScopeOfChain(doc, ch[j])))

\* the maps of the document
Maps(d) == {m \in 1..Len(d) : d[m].t = "Map"}

(* C7: in every scope, a map in which the identifier key appears twice     *)
(* fails with a duplicate-field error, wherever the second occurrence is   *)
(* placed relative to the data key.                                        *)
C7_DuplicateAnywhere ==
    LET ch == Chains(doc, Len(doc)) IN
    \A m \in Maps(doc) :
        (/\ result.kind # "Running"
         /\ Cardinality({j \in EntriesOf(doc, ch, m) :
                            doc[j].v = IdKeyOf(ScopeOfChain(doc, ch[m]))}) >= 2)
        => result.kind = "DuplicateField"

(* C8: in every scope, a map containing a key other than the scope's       *)
(* identifier key and data key is rejected with an error, whether the      *)
(* unknown key comes before, between or after the known keys.              *)
C8_UnknownKeyRejected ==
    (/\ result.kind # "Running"
     /\ \E j \in 1..Len(doc) :
           doc[j].t \in {"Key", "Skipped"} /\ doc[j].v = "bogus")
    => result.kind # "Ok"

(* C9: in every scope, a map that ends without its data key fails with     *)
(* MissingField(name), name being that scope's data key (objects,          *)
(* components, data, entity_overrides, component_overrides, diff), and no  *)
(* Storage callback is made for that scope.                                *)
C9_MissingDataKey ==
    LET ch == Chains(doc, Len(doc)) IN
    \A m \in Maps(doc) :
        LET scope == ScopeOfChain(doc, ch[m])
            ended == \E j \in (m + 1)..Len(doc) :
                        /\ doc[j].t = "EndMap"
                        /\ ch[j - 1] = ch[m]
        IN (/\ ended
            /\ \A j \in EntriesOf(doc, ch, m) : doc[j].v # DataKeyOf(scope))
           => /\ result = Err("MissingField", DataKeyOf(scope))
              /\ \A i \in 1..Len(calls) : calls[i].at < m

(* C10: a PrefabObject whose variant tag is neither Entity nor PrefabRef   *)
(* fails the parse with an unknown-variant error, and no Storage callback  *)
(* is made for that object.                                                *)
C10_UnknownVariant ==
    \A j \in 1..Len(doc) :
        (doc[j].t = "Variant" /\ doc[j].v \notin {"Entity", "PrefabRef"})
        => /\ result = Err("UnknownVariant", doc[j].v)
           /\ j = Len(doc)
           /\ stack = <<>>
           /\ \A i \in 1..Len(calls) : calls[i].at < j

C10_Witness ==
    /\ result.kind = "UnknownVariant"
    /\ Len(calls) = 1
    /\ doc[Len(doc)] = Tok("Variant", "Bogus")

\* the data keys of the leaf scopes
LeafKeys(d, ch) ==
    DataKeys(d, ch, "Component") \cup DataKeys(d, ch, "ComponentOverride")

(* C11: when the parse fails, by an envelope error or by an error of a     *)
(* Storage callback, the top-level call returns that error and no value,   *)
(* nothing is left running that could call the Storage again, and the      *)
(* callbacks made are exactly those of the leaves that precede the point   *)
(* of failure, in document order: none is taken back.                      *)
C11_FailureKeepsCalls ==
    LET ch == Chains(doc, Len(doc)) IN
    result.kind \notin {"Running", "Ok"} =>
        /\ stack = <<>>
        /\ calls = InOrder(doc, ch, LeafKeys(doc, ch) \ Disordered(doc, ch))
        /\ result.kind = "Custom" =>
              /\ calls # <<>>
              /\ calls[Len(calls)].at = Len(doc)

C11_Witness ==
    /\ result = Err("Custom", "storage")
    /\ Len(calls) = 2
    /\ doc[calls[1].at].t = "Leaf"
    /\ calls[2].at = Len(doc)

\* map m holds its identifier and then its data field, and nothing else
Plain(d, ch, m) ==
    LET es == EntriesOf(d, ch, m)
        scope == ScopeOfChain(d, ch[m])
    IN /\ Cardinality(es) = 2
       /\ \E i, j \in es :
             /\ i < j
             /\ d[i] = Tok("Key", IdKeyOf(scope))
             /\ d[i + 1].t = "Uuid"
             /\ d[j] = Tok("Key", DataKeyOf(scope))

(* C12: a complete document in which every map holds its identifier and    *)
(* then its data field, and which has no leaf (the object list is empty,   *)
(* or the entities have empty component lists and the prefab references    *)
(* empty override lists), parses successfully with no Storage call.        *)
C12_NoLeafNoCall ==
    LET ch == Chains(doc, Len(doc)) IN
    (/\ ch[Len(doc)] = <<>>
     /\ \A m \in Maps(doc) : Plain(doc, ch, m)
     /\ LeafKeys(doc, ch) = {})
    => /\ result = Ok
       /\ calls = <<>>

C12_Witness ==
    /\ result = Ok
    /\ calls = <<>>
    /\ \E i, j \in 1..Len(doc) :
          /\ doc[i] = Tok("Variant", "Entity")
          /\ doc[j] = Tok("Variant", "PrefabRef")
    /\ \A m \in Maps(doc) : Plain(doc, Chains(doc, Len(doc)), m)

(* C23: the deserializer never calls Storage::add_prefab_ref: every        *)
(* callback is a deserialize_component or an apply_component_diff made for *)
(* a leaf, so a prefab reference whose override lists are empty causes no  *)
(* callback at all.                                                        *)
C23_NoAddPrefabRef ==
    LET ch == Chains(doc, Len(doc)) IN
    \A i \in 1..Len(calls) :
        /\ calls[i].fn \in {"deserialize_component", "apply_component_diff"}
        /\ calls[i].at - 1 \in LeafKeys(doc, ch)

C23_Witness ==
    /\ result = Ok
    /\ calls = <<>>
    /\ \E i, j \in 1..Len(doc) :
          /\ doc[i] = Tok("Variant", "PrefabRef")
          /\ doc[j] = Tok("Key", "component_overrides")

(* C24: in the Entity, Component, PrefabRef, EntityOverride and            *)
(* ComponentOverride scopes the visitor reads nothing after its first data *)
(* key: a map has at most one data field that is read, every entry after   *)
(* it is left unread, no callback is made for such an entry, and no error  *)
(* of the visitor follows from it (only the format may reject it).         *)
C24_ReturnsAfterData ==
    LET ch == Chains(doc, Len(doc)) IN
    \A m \in Maps(doc) :
        LET scope == ScopeOfChain(doc, ch[m])
            es == EntriesOf(doc, ch, m)
            dk == {j \in es : doc[j] = Tok("Key", DataKeyOf(scope))}
        IN scope # "Prefab" =>
            /\ Cardinality(dk) <= 1
            /\ \A j \in es :
                  /\ (\E k \in dk : k < j) => doc[j].t = "Skipped"
                  /\ doc[j].t = "Skipped" =>
                        /\ \E k \in dk : k < j
                        /\ \A i \in 1..Len(calls) : calls[i].at # j + 1
                        /\ j + 1 = Len(doc)
                              => result.kind \in {"Running", "Format"}

C24_Witness ==
    /\ result = Ok
    /\ Len(calls) = 1
    /\ \E j \in 1..Len(doc) : doc[j] = Tok("Skipped", "data")

(* C25: in the Prefab scope the visitor reads on after objects: no entry   *)
(* of the prefab map is left unread, every objects field is traversed and  *)
(* its leaves routed, and an id key after objects fails as a duplicate     *)
(* field with the leaves before it already routed.                         *)
C25_PrefabReadsOn ==
    LET ch == Chains(doc, Len(doc))
        es == EntriesOf(doc, ch, 1)
    IN /\ \A j \in es : doc[j].t = "Key"
       /\ (result = Ok \/ result = Err("DuplicateField", "id"))
             => calls = InOrder(doc, ch, LeafKeys(doc, ch))
       /\ \A j \in es :
             (/\ doc[j] = Tok("Key", "id")
              /\ \E k \in es : k < j /\ doc[k] = Tok("Key", "id"))
             => /\ j = Len(doc)
                /\ result = Err("DuplicateField", "id")

C25_Witness ==
    LET ch == Chains(doc, Len(doc))
        objs == {j \in EntriesOf(doc, ch, 1) : doc[j] = Tok("Key", "objects")}
    IN /\ result = Ok
       /\ Cardinality(objs) = 2
       /\ Len(calls) = 1
       /\ \A j \in objs : j < calls[1].at

----------------------------------------------------------------------------
(* The operations of one registry record, ComponentRegistration::of::<T>() *)

\* legion entity handles
Entities == {"e1", "e2"}
\* Option<Entity>::None
NoEntity == "NoEntity"
\* component kinds: T is the kind of the record, U is another kind
Kinds == {"T", "U"}
\* a component value is a struct of two fields
Fields == {"x", "y"}
FieldValues == {"a", "b"}
TValues == [Fields -> FieldValues]
\* T::default()
Default == [f \in Fields |-> "a"]

ValuesOf(k) == IF k = "T" THEN TValues ELSE {Default}

\* a world: the live entities and the components attached to them, one
\* <<entity, kind, value>> for each attachment
Worlds ==
    {w \in [live : SUBSET Entities,
            comps : SUBSET (Entities \X Kinds \X TValues)] :
        \A c \in w.comps :
            /\ c[1] \in w.live
            /\ c[3] \in ValuesOf(c[2])
            /\ \A b \in w.comps : (b[1] = c[1] /\ b[2] = c[2]) => b = c}

\* the source side of a diff holds one entity at most, with T only
SrcWorlds ==
    {w \in Worlds : w.live \subseteq {"e1"} /\ \A c \in w.comps : c[2] = "T"}

\* world.entry(entity) / world.entry_ref(entity): Some for a live entity
entry(world, entity) == entity \in world.live

entry_ref(world, entity) == entity \in world.live

\* entry.get_component::<K>(): the values attached, none for Err
get_component(world, entity, k) ==
    {c[3] : c \in {b \in world.comps : b[1] = entity /\ b[2] = k}}

\* the component behind a Some / Ok
Only(comp) == CHOOSE v \in comp : TRUE

\* a second attachment is put next to the first
add_component_again(world, entity, k, v) ==
    [world EXCEPT !.comps = @ \cup {<<entity, k, v>>}]

\* entry.add_component(v): a component of the kind already attached is
\* replaced
add_component(world, entity, k, v) ==
    [world EXCEPT !.comps =
        {b \in @ : ~(b[1] = entity /\ b[2] = k)} \cup {<<entity, k, v>>}]

\* every component of the entity is detached
remove_component_all(world, entity, k) ==
    [world EXCEPT !.comps = {b \in @ : b[1] # entity}]

\* entry.remove_component::<K>(): nothing happens when K is not attached
remove_component(world, entity, k) ==
    [world EXCEPT !.comps = {b \in @ : ~(b[1] = entity /\ b[2] = k)}]

\* what a serializer is given: a whole value or a field-level diff
ValueItem(v) == [kind |-> "value", v |-> v]
DiffItem(d) == [kind |-> "diff", v |-> d]

\* serde_diff::Diff::serializable(old, new), serialized: the fields that
\* differ, each with its new value
Diff_serializable(old, new) ==
    [f \in {g \in Fields : old[g] # new[g]} |-> new[f]]

\* diff.has_changes(), read after the diff was serialized
has_changes(diff) == DOMAIN diff # {}

\* serde_diff::Apply::deserializable(comp), deserialized from a diff: the
\* fields named in the diff are overwritten in place
Apply_deserializable(comp, diff) ==
    [f \in Fields |-> IF f \in DOMAIN diff THEN diff[f] ELSE comp[f]]

Unit == "()"
Panic == "panic"

\* unwrap() on None / expect(..) on Err: the process aborts where it stands
Panicked(world) == [ret |-> Panic, world |-> world, out |-> <<>>]

\* serialize_single_fn: the component is handed to the callback s_fn
serialize_single_fn(world, entity) ==
    IF ~entry_ref(world, entity) THEN Panicked(world)
    ELSE LET comp == get_component(world, entity, "T") IN
         IF comp = {} THEN Panicked(world)
         ELSE [ret |-> Unit, world |-> world, out |-> <<ValueItem(Only(comp))>>]

\* a handle that is not live stands for a default component
Lookup_dead_default(world, entity) ==
    IF entity = NoEntity THEN {}
    ELSE IF ~entry_ref(world, entity) THEN {Default}
    ELSE get_component(world, entity, "T")

\* entity.and_then(|e| world.entry_ref(e)), then get_component::<T>():
\* Some(comp) only for a handle of a live entity that carries T
Lookup(world, entity) ==
    IF entity # NoEntity /\ entry_ref(world, entity)
    THEN get_component(world, entity, "T") ELSE {}

\* the diff is taken from the destination to the source
DiffOf_swapped(src_comp, dst_comp) == Diff_serializable(dst_comp, src_comp)

\* serde_diff::Diff::serializable(src_comp, dst_comp)
DiffOf(src_comp, dst_comp) == Diff_serializable(src_comp, dst_comp)

\* the diff is written only when it has changes
WriteDiff_lazy(diff) == IF has_changes(diff) THEN <<DiffItem(diff)>> ELSE <<>>

\* <dyn erased_serde::Serialize>::serialize(&diff, ser): always written
WriteDiff(diff) == <<DiffItem(diff)>>

\* Add and Remove change places
diff_single_fn_mirrored(src_world, src_entity, dst_world, dst_entity) ==
    LET src_comp == Lookup(src_world, src_entity)
        dst_comp == Lookup(dst_world, dst_entity)
    IN CASE src_comp # {} /\ dst_comp # {} ->
              LET diff == DiffOf(Only(src_comp), Only(dst_comp)) IN
              [ret |-> IF has_changes(diff) THEN "Change" ELSE "NoChange",
               out |-> WriteDiff(diff)]
         [] src_comp = {} /\ dst_comp # {} ->
              [ret |-> "Remove", out |-> <<ValueItem(Only(dst_comp))>>]
         [] src_comp # {} /\ dst_comp = {} ->
              [ret |-> "Add", out |-> <<>>]
         [] OTHER ->
              [ret |-> "NoChange", out |-> <<>>]

\* diff_single_fn: the component is looked up on each side (None for no
\* handle, an entity that is not live, or no component of kind T)
diff_single_fn(src_world, src_entity, dst_world, dst_entity) ==
    LET src_comp == Lookup(src_world, src_entity)
        dst_comp == Lookup(dst_world, dst_entity)
    IN CASE src_comp # {} /\ dst_comp # {} ->
              LET diff == DiffOf(Only(src_comp), Only(dst_comp)) IN
              [ret |-> IF has_changes(diff) THEN "Change" ELSE "NoChange",
               out |-> WriteDiff(diff)]
         [] src_comp = {} /\ dst_comp # {} ->
              [ret |-> "Add", out |-> <<ValueItem(Only(dst_comp))>>]
         [] src_comp # {} /\ dst_comp = {} ->
              [ret |-> "Remove", out |-> <<>>]
         [] OTHER ->
              [ret |-> "NoChange", out |-> <<>>]

\* an entity without the component is given a default one first
apply_diff_fn_lenient(d, world, entity) ==
    IF ~entry(world, entity) THEN Panicked(world)
    ELSE LET comp == get_component(world, entity, "T") IN
         IF d = <<>> \/ d[1].kind # "diff" THEN Panicked(world)
         ELSE LET old == IF comp = {} THEN Default ELSE Only(comp) IN
              [ret |-> Unit, out |-> <<>>,
               world |-> add_component(world, entity, "T",
                            Apply_deserializable(old, d[1].v))]

\* apply_diff_fn: unwrap() of the entry, expect(..) of the component, then
\* expect(..) of the deserialization of the diff into the component
apply_diff_fn(d, world, entity) ==
    IF ~entry(world, entity) THEN Panicked(world)
    ELSE LET comp == get_component(world, entity, "T") IN
         IF comp = {} THEN Panicked(world)
         ELSE IF d = <<>> \/ d[1].kind # "diff" THEN Panicked(world)
         ELSE [ret |-> Unit, out |-> <<>>,
               world |-> add_component(world, entity, "T",
                            Apply_deserializable(Only(comp), d[1].v))]

\* add_default_to_entity_fn
add_default_to_entity_fn(world, entity) ==
    IF ~entry(world, entity) THEN Panicked(world)
    ELSE [ret |-> Unit, out |-> <<>>,
          world |-> add_component(world, entity, "T", Default)]

\* add_to_entity_fn: the value is parsed first, expect(..) on a failure
add_to_entity_fn(d, world, entity) ==
    IF d = <<>> \/ d[1].kind # "value" THEN Panicked(world)
    ELSE IF ~entry(world, entity) THEN Panicked(world)
    ELSE [ret |-> Unit, out |-> <<>>,
          world |-> add_component(world, entity, "T", d[1].v)]

\* remove_from_entity_fn
remove_from_entity_fn(world, entity) ==
    IF ~entry(world, entity) THEN Panicked(world)
    ELSE [ret |-> Unit, out |-> <<>>,
          world |-> remove_component(world, entity, "T")]

\* the record of an operation: its arguments (src_entity, entity, the
\* stream d it read from), what it returned and wrote, the worlds before
\* it, and the operation before it
Operation(op, src_entity, entity, d, r, prev) ==
    [op |-> op, src_entity |-> src_entity, entity |-> entity, d |-> d,
     ret |-> r.ret, out |-> r.out, pre |-> worlds, prev |-> prev]

Idle ==
    [op |-> "none", src_entity |-> NoEntity, entity |-> NoEntity, d |-> <<>>,
     ret |-> Unit, out |-> <<>>, pre |-> <<>>, prev |-> <<>>]

\* the streams a caller may hand to add_to_entity
Streams == {<<>>} \cup {<<ValueItem(v)>> : v \in TValues}

CompInit ==
    /\ NoParse
    /\ NoRegistry
    /\ NoSeq /\ NoClone /\ NoCooked
    /\ worlds \in [src : SrcWorlds, dst : Worlds]
    /\ last = Idle

serialize_single ==
    /\ UNCHANGED <<parseVars, regVars, restVars>>
    /\ last.ret # Panic
    /\ \E entity \in Entities :
          LET r == serialize_single_fn(worlds.dst, entity) IN
          /\ last' = Operation("serialize_single", NoEntity, entity, <<>>, r, <<>>)
          /\ UNCHANGED worlds

\* src_world and dst_world are the two worlds at hand
diff_single ==
    /\ UNCHANGED <<parseVars, regVars, restVars>>
    /\ last.ret # Panic
    /\ \E src_entity, dst_entity \in Entities \cup {NoEntity} :
          LET r == diff_single_fn(worlds.src, src_entity, worlds.dst, dst_entity)
          IN /\ last' = Operation("diff_single", src_entity, dst_entity,
                                  <<>>, r, <<>>)
             /\ UNCHANGED worlds

\* the deserializer reads what the diff before it has written
apply_diff ==
    /\ UNCHANGED <<parseVars, regVars, restVars>>
    /\ last.ret # Panic
    /\ last.op = "diff_single"
    /\ \E entity \in Entities :
          LET r == apply_diff_fn(last.out, worlds.dst, entity) IN
          /\ last' = Operation("apply_diff", NoEntity, entity, last.out, r, last)
          /\ worlds' = [worlds EXCEPT !.dst = r.world]

add_default_to_entity ==
    /\ UNCHANGED <<parseVars, regVars, restVars>>
    /\ last.ret # Panic
    /\ \E entity \in Entities :
          LET r == add_default_to_entity_fn(worlds.dst, entity) IN
          /\ last' = Operation("add_default_to_entity", NoEntity, entity,
                               <<>>, r, <<>>)
          /\ worlds' = [worlds EXCEPT !.dst = r.world]

add_to_entity ==
    /\ UNCHANGED <<parseVars, regVars, restVars>>
    /\ last.ret # Panic
    /\ \E entity \in Entities, d \in Streams :
          LET r == add_to_entity_fn(d, worlds.dst, entity) IN
          /\ last' = Operation("add_to_entity", NoEntity, entity, d, r, <<>>)
          /\ worlds' = [worlds EXCEPT !.dst = r.world]

remove_from_entity ==
    /\ UNCHANGED <<parseVars, regVars, restVars>>
    /\ last.ret # Panic
    /\ \E entity \in Entities :
          LET r == remove_from_entity_fn(worlds.dst, entity) IN
          /\ last' = Operation("remove_from_entity", NoEntity, entity,
                               <<>>, r, <<>>)
          /\ worlds' = [worlds EXCEPT !.dst = r.world]

CompNext ==
    \/ serialize_single
    \/ diff_single
    \/ apply_diff
    \/ add_default_to_entity
    \/ add_to_entity
    \/ remove_from_entity

SpecComp == CompInit /\ [][CompNext]_vars

----------------------------------------------------------------------------
(* Claims about the component operations (spec.md section 4.1)             *)

\* the T values an entity handle stands for in a world: none when there is
\* no handle, the entity is not live, or T is not attached
ValueIn(world, entity) ==
    IF entity # NoEntity /\ entity \in world.live
    THEN {c[3] : c \in {b \in world.comps : b[1] = entity /\ b[2] = "T"}}
    ELSE {}

(* C13: diff returns Change exactly when the component is present on both  *)
(* sides with different values, NoChange exactly when it is present on     *)
(* both sides with equal values or absent on both, Add exactly when it is  *)
(* present only on the destination, Remove exactly when only on the source.*)
C13_DiffResult ==
    last.op = "diff_single" =>
        LET s == ValueIn(last.pre.src, last.src_entity)
            d == ValueIn(last.pre.dst, last.entity)
        IN /\ (last.ret = "Change") <=> (s # {} /\ d # {} /\ s # d)
           /\ (last.ret = "NoChange")
                <=> ((s # {} /\ d # {} /\ s = d) \/ (s = {} /\ d = {}))
           /\ (last.ret = "Add") <=> (s = {} /\ d # {})
           /\ (last.ret = "Remove") <=> (s # {} /\ d = {})

C13_Witness ==
    /\ last.op = "diff_single"
    /\ last.ret = "Change"
    /\ ValueIn(last.pre.src, last.src_entity) = {Default}
    /\ last.entity = "e2"

C16_AbsentComponentAborts ==
    (/\ last.op \in {"apply_diff", "serialize_single"}
     /\ ValueIn(last.pre.dst, last.entity) = {})
    => /\ last.ret = Panic
       /\ worlds = last.pre
       /\ last.out = <<>>

C16_Witness ==
    /\ last.op = "apply_diff"
    /\ last.ret = Panic
    /\ last.entity \in last.pre.dst.live
    /\ ValueIn(last.pre.dst, last.entity) = {}
    /\ last.d # <<>>
    /\ last.d[1].kind = "diff"

(* C17: whatever add_default, add_from_stream and remove did before, an    *)
(* entity carries at most one value of the kind, and after each of them on *)
(* a live entity the value is the one that operation alone determines: the *)
(* default, the parsed value, or none.                                     *)
C17_LastOperationWins ==
    LET now == {c[3] : c \in {b \in worlds.dst.comps :
                                b[1] = last.entity /\ b[2] = "T"}}
        live == last.entity \in last.pre.dst.live
    IN /\ \A e \in Entities : \A k \in Kinds :
             Cardinality(get_component(worlds.dst, e, k)) <= 1
       /\ (last.op = "add_default_to_entity" /\ live)
             => (last.ret = Unit /\ now = {Default})
       /\ (last.op = "add_to_entity" /\ live /\ last.d # <<>>)
             => (last.ret = Unit /\ now = {last.d[1].v})
       /\ (last.op = "remove_from_entity" /\ live)
             => (last.ret = Unit /\ now = {})

C17_Witness ==
    /\ last.op = "add_to_entity"
    /\ last.ret = Unit
    /\ ValueIn(last.pre.dst, last.entity) \notin {{}, {last.d[1].v}, {Default}}
    /\ ValueIn(worlds.dst, last.entity) = {last.d[1].v}

(* C18: remove on a live entity detaches the component when it is present  *)
(* and does nothing, without failing, when it is absent; every other kind  *)
(* on that entity and every component of every other entity stay as they   *)
(* were.                                                                   *)
C18_RemoveOnlyThatComponent ==
    (last.op = "remove_from_entity" /\ last.entity \in last.pre.dst.live)
    => /\ last.ret = Unit
       /\ worlds.src = last.pre.src
       /\ worlds.dst.live = last.pre.dst.live
       /\ worlds.dst.comps
             = {c \in last.pre.dst.comps :
                   ~(c[1] = last.entity /\ c[2] = "T")}

C18_Witness ==
    /\ last.op = "remove_from_entity"
    /\ last.ret = Unit
    /\ ValueIn(last.pre.dst, last.entity) = {}
    /\ get_component(worlds.dst, last.entity, "U") # {}
    /\ \E e \in Entities \ {last.entity} : ValueIn(worlds.dst, e) # {}

(* C27: diff takes a side for absent alike when no handle is given, when   *)
(* the handle is not live in that side's world and when the live entity    *)
(* lacks the component: none of the three fails, and each returns and      *)
(* writes what the call without a handle on that side returns and writes.  *)
C27_AbsentAlike ==
    last.op = "diff_single" =>
        LET given == [ret |-> last.ret, out |-> last.out] IN
        /\ last.ret # Panic
        /\ ValueIn(last.pre.src, last.src_entity) = {} =>
              given = diff_single_fn(last.pre.src, NoEntity,
                                     last.pre.dst, last.entity)
        /\ ValueIn(last.pre.dst, last.entity) = {} =>
              given = diff_single_fn(last.pre.src, last.src_entity,
                                     last.pre.dst, NoEntity)

C27_Witness ==
    /\ last.op = "diff_single"
    /\ last.entity # NoEntity
    /\ last.entity \notin last.pre.dst.live
    /\ last.src_entity \in last.pre.src.live
    /\ last.ret = "Remove"
    /\ last.out = <<>>

----------------------------------------------------------------------------
(* The registry: inventory::collect!(ComponentRegistration)                *)

\* registrations one program submits
MaxRegistrations == 3
\* iterations over the registry in one run
MaxIterations == 2

\* component types that register_component_type! is invoked with
Types == {"A", "B", "C"}

\* T::UUID of each type
UuidOf == [t \in Types |-> <<"uuid", t>>]

\* ComponentRegistration::of::<T>(): the fields the registry is keyed by
of(t) == [component_type_id |-> t, uuid |-> UuidOf[t]]

\* the submission happens while the static constructors run, before main
Loading_always == TRUE

\* inventory::submit! is an item: it runs as a static constructor
Loading == phase = "load"

RegInit ==
    /\ NoParse
    /\ NoComponents
    /\ NoSeq /\ NoClone /\ NoCooked
    /\ registry = <<>>
    /\ phase = "load"
    /\ seen = <<>>
    /\ maps = <<>>

\* register_component_type!(T): the record is linked in at the head of
\* the registry, whatever the registry holds
register_component_type ==
    /\ UNCHANGED <<parseVars, compVars, restVars>>
    /\ Loading
    /\ Len(registry) < MaxRegistrations
    /\ \E t \in Types : registry' = <<of(t)>> \o registry
    /\ UNCHANGED <<phase, seen, maps>>

\* the static constructors are done and main starts
Startup ==
    /\ UNCHANGED <<parseVars, compVars, restVars>>
    /\ phase = "load"
    /\ phase' = "run"
    /\ UNCHANGED <<registry, seen, maps>>

\* an iteration in progress
Iterating == seen # <<>> /\ ~seen[Len(seen)].done

\* iter_component_registrations(): an iterator standing at the head
iter_component_registrations ==
    /\ UNCHANGED <<parseVars, compVars, restVars>>
    /\ phase = "run"
    /\ ~Iterating
    /\ Len(seen) < MaxIterations
    /\ seen' = Append(seen, [pos |-> 1, items |-> <<>>, done |-> FALSE])
    /\ UNCHANGED <<registry, phase, maps>>

\* HashMap::from_iter(iter.map(|reg| (reg.component_type_id(), reg.clone())))
FromIter(items) ==
    [k \in {items[i].component_type_id : i \in DOMAIN items} |->
        items[CHOOSE i \in DOMAIN items :
                 /\ items[i].component_type_id = k
                 /\ \A j \in DOMAIN items :
                       items[j].component_type_id = k => j <= i]]

\* Iterator::next(): the node under the cursor is yielded; at the end of
\* the list the iteration is over and the map is complete
Iterator_next ==
    /\ UNCHANGED <<parseVars, compVars, restVars>>
    /\ Iterating
    /\ LET it == seen[Len(seen)] IN
       IF it.pos <= Len(registry)
       THEN /\ seen' = [seen EXCEPT ![Len(seen)] =
                          [it EXCEPT !.items = Append(@, registry[it.pos]),
                                     !.pos = @ + 1]]
            /\ UNCHANGED maps
       ELSE /\ seen' = [seen EXCEPT ![Len(seen)].done = TRUE]
            /\ maps' = FromIter(it.items)
    /\ UNCHANGED <<registry, phase>>

RegNext ==
    \/ register_component_type
    \/ Startup
    \/ iter_component_registrations
    \/ Iterator_next

SpecReg == RegInit /\ [][RegNext]_vars

\* the iterations that have run to their end
Complete == {i \in DOMAIN seen : seen[i].done}

(* C19: whatever registrations were submitted, no two entries of the       *)
(* registry share a ComponentTypeUuid, and a map built from the registry   *)
(* has one entry per submitted registration.                               *)
C19_UniqueUuids ==
    /\ \A i, j \in DOMAIN registry :
          i # j => registry[i].uuid # registry[j].uuid
    /\ Complete # {} => Cardinality(DOMAIN maps) = Len(registry)

(* C20: every iteration yields each submitted registration exactly once,   *)
(* and from the first iteration on the registry is never added to, changed *)
(* or reduced: every iteration that has ended yielded the registry as it   *)
(* is now.                                                                 *)
C20_IterationIsStable ==
    /\ \A i \in Complete : seen[i].items = registry
    /\ seen # <<>> => phase = "run"

C20_Witness ==
    /\ Cardinality(Complete) = 2
    /\ Len(registry) = 3
    /\ registry[1] = registry[3]
    /\ registry[1] # registry[2]

----------------------------------------------------------------------------
(* ComponentSeqDeserializer::visit_seq: a sequence of components is        *)
(* deserialized into the chunks of storage that get_next_storage hands out *)

\* elements of one input sequence
MaxElements == 3
\* chunks the storage can hand out
MaxChunks == 3
\* slots of one chunk
MaxChunkLen == 2

\* the sequences over S of length n at most
BoundedSeq(S, n) == UNION {[1..k -> S] : k \in 0..n}

\* an element parses as a T ("v") or does not ("bad")
Elements == {"v", "bad"}

\* size_hint() is None ({}) or the number of elements that remain
SeqInit ==
    /\ NoParse
    /\ NoComponents
    /\ NoRegistry
    /\ NoClone /\ NoCooked
    /\ \E elems \in BoundedSeq(Elements, MaxElements),
          chunks \in BoundedSeq(0..MaxChunkLen, MaxChunks) :
          \E size \in {{}, {Len(elems)}} :
             seqde = [elems |-> elems, size |-> size, chunks |-> chunks,
                      next |-> 1, handed |-> 0, iter |-> 0, idx |-> 0,
                      pc |-> "loop", written |-> <<>>, ret |-> "Running"]

\* the loop `for _ in 0..size.unwrap_or(usize::MAX)` has run its course
LoopDone(sd) == sd.size # {} /\ \A n \in sd.size : sd.iter >= n

Finish(sd, ret) == [sd EXCEPT !.pc = "done", !.ret = ret]

\* the head of the loop: (self.get_next_storage_fn)()
get_next_storage ==
    /\ UNCHANGED <<parseVars, compVars, regVars, cloning, cooked>>
    /\ seqde.pc = "loop"
    /\ seqde' =
          IF LoopDone(seqde) THEN Finish(seqde, "Ok")
          ELSE IF seqde.handed < Len(seqde.chunks)
          THEN \* Some((storage_ptr, storage_len))
               [seqde EXCEPT !.handed = @ + 1, !.idx = 0, !.pc = "chunk"]
          ELSE \* None: seq.next_element::<IgnoredAny>()
               IF seqde.next <= Len(seqde.elems)
               THEN Finish(seqde, "Panic")
               ELSE Finish(seqde, "Ok")

\* `for idx in 0..storage_len`: seq.next_element_seed(ComponentDeserializer
\* { ptr: storage_ptr.add(idx) }), which writes the value it has parsed
next_element_seed ==
    /\ UNCHANGED <<parseVars, compVars, regVars, cloning, cooked>>
    /\ seqde.pc = "chunk"
    /\ seqde' =
          IF seqde.idx >= seqde.chunks[seqde.handed]
          THEN [seqde EXCEPT !.pc = "loop", !.iter = @ + 1]
          ELSE IF seqde.next > Len(seqde.elems)
          THEN Finish(seqde, "Panic")
          ELSE IF seqde.elems[seqde.next] = "bad"
          THEN Finish(seqde, "Err")
          ELSE [seqde EXCEPT
                  !.written = Append(@, [chunk |-> seqde.handed,
                                         idx |-> seqde.idx,
                                         elem |-> seqde.next]),
                  !.next = @ + 1,
                  !.idx = @ + 1]

SeqNext ==
    \/ get_next_storage
    \/ next_element_seed

SpecSeq == SeqInit /\ [][SeqNext]_vars

RECURSIVE SlotsOf(_, _)
\* the slots of the first n chunks, in chunk order
SlotsOf(chunks, n) ==
    IF n = 0 THEN <<>>
    ELSE SlotsOf(chunks, n - 1)
            \o [i \in 1..chunks[n] |-> [chunk |-> n, idx |-> i - 1]]

(* C30: when visit_seq returns Ok, every element of the input has been     *)
(* written to one slot and every slot of every chunk handed out has been   *)
(* written once, the k-th element to the k-th slot in chunk order; the     *)
(* call panics when a chunk that was handed out cannot be filled and when  *)
(* an element remains although the storage is exhausted.                   *)
C30_EveryElementStored ==
    LET slots == SlotsOf(seqde.chunks, seqde.handed)
        parsed == \A k \in 1..Len(seqde.elems) : seqde.elems[k] = "v"
    IN /\ seqde.ret = "Ok" =>
             /\ Len(seqde.written) = Len(seqde.elems)
             /\ Len(slots) = Len(seqde.written)
             /\ \A k \in 1..Len(seqde.written) :
                   seqde.written[k]
                      = [chunk |-> slots[k].chunk, idx |-> slots[k].idx,
                         elem |-> k]
       /\ (seqde.pc = "done" /\ parsed) =>
             /\ Len(slots) > Len(seqde.elems) => seqde.ret = "Panic"
             /\ Len(SlotsOf(seqde.chunks, Len(seqde.chunks)))
                   < Len(seqde.elems) => seqde.ret = "Panic"

----------------------------------------------------------------------------
(* clone_components: comp_clone_fn copies a range of one archetype's       *)
(* column of T into a destination writer                                   *)

\* components of T in the source archetype
MaxColumn == 4
\* components the destination writer holds before the call
MaxWritten == 1

\* the range is a Range<usize>: any two indices
Ranges == [start : 0..(MaxColumn + 1), end : 0..(MaxColumn + 1)]

\* src_components.get(ComponentTypeId::of::<T>()): the archetype may have
\* no column of T
CloneInit ==
    /\ NoParse
    /\ NoComponents
    /\ NoRegistry
    /\ NoSeq /\ NoCooked
    /\ \E column \in BoundedSeq(FieldValues, MaxColumn),
          dst \in BoundedSeq(FieldValues, MaxWritten),
          range \in Ranges, has \in BOOLEAN :
          cloning = [column |-> column, has_column |-> has, range |-> range,
                     dst |-> dst, src_slice |-> <<>>, dst0 |-> dst,
                     column0 |-> column, i |-> 0, pc |-> "entry",
                     ret |-> "Running"]

\* as many elements as the range is long, taken from the head of the slice
Slice_from_head(column, range) == SubSeq(column, 1, range.end - range.start)

\* &slice[src_entity_range]: the elements start .. end - 1, counted from 0
Slice(column, range) == SubSeq(column, range.start + 1, range.end)

\* slice indexing panics when the range does not lie in the slice
InBounds(column, range) ==
    range.start <= range.end /\ range.end <= Len(column)

\* <T as Clone>::clone(&component)
Clone(component) == component

\* the unwrap()s, the slice and dst.ensure_capacity(src_slice.len())
clone_components ==
    /\ UNCHANGED <<parseVars, compVars, regVars, seqde, cooked>>
    /\ cloning.pc = "entry"
    /\ cloning' =
          IF ~cloning.has_column \/ ~InBounds(cloning.column, cloning.range)
          THEN [cloning EXCEPT !.pc = "done", !.ret = "Panic"]
          ELSE [cloning EXCEPT !.pc = "loop",
                               !.src_slice = Slice(cloning.column, cloning.range)]

\* `for component in src_slice`: clone, dst.extend_memcopy(&cloned, 1),
\* mem::forget(cloned)
extend_memcopy ==
    /\ UNCHANGED <<parseVars, compVars, regVars, seqde, cooked>>
    /\ cloning.pc = "loop"
    /\ cloning' =
          IF cloning.i < Len(cloning.src_slice)
          THEN [cloning EXCEPT
                  !.dst = Append(@, Clone(cloning.src_slice[cloning.i + 1])),
                  !.i = @ + 1]
          ELSE [cloning EXCEPT !.pc = "done", !.ret = "Ok"]

CloneNext ==
    \/ clone_components
    \/ extend_memcopy

SpecClone == CloneInit /\ [][CloneNext]_vars

(* C28: clone_components appends to the destination writer one clone of    *)
(* each source component of the range, in source order, as many as the     *)
(* range is long and none from outside it, and leaves the source as it     *)
(* was.                                                                    *)
C28_CloneRange ==
    LET r == cloning.range
        n == IF cloning.ret = "Ok" THEN r.end - r.start ELSE cloning.i
    IN /\ cloning.column = cloning.column0
       /\ cloning.pc = "entry" => cloning.dst = cloning.dst0
       /\ cloning.ret = "Panic" => cloning.dst = cloning.dst0
       /\ cloning.pc \in {"loop", "done"} /\ cloning.ret # "Panic" =>
             /\ Len(cloning.dst) = Len(cloning.dst0) + n
             /\ \A k \in 1..Len(cloning.dst0) :
                   cloning.dst[k] = cloning.dst0[k]
             /\ \A k \in 1..n :
                   cloning.dst[Len(cloning.dst0) + k]
                      = cloning.column0[r.start + k]

C28_Witness ==
    /\ cloning.ret = "Ok"
    /\ cloning.range = [start |-> 1, end |-> 3]
    /\ Len(cloning.column) = 4
    /\ cloning.column[2] # cloning.column[3]
    /\ cloning.column[1] # cloning.column[2]
    /\ Len(cloning.dst) = 3

----------------------------------------------------------------------------
(* CookedPrefab: serialize and deserialize (prefab_cooked.rs).  The world  *)
(* format is legion's; SerializeImpl and DeserializeImpl, which emit and   *)
(* collect the entity identities, are described in spec.md section 4.2.    *)

EntityUuids == {"u1", "u2"}

\* HashMap<EntityUuid, Entity>: any uuids, each with any handle
EntityMaps == UNION {[D -> Entities] : D \in SUBSET EntityUuids}

\* pub struct CookedPrefab { world, entities }: both fields are public
CookedPrefabs == [world : Worlds, entities : EntityMaps]

Range(f) == {f[x] : x \in DOMAIN f}

EmptyWorld == [live |-> {}, comps |-> {}]
EmptyMap == [u \in {} |-> "e1"]
NoPrefab == [world |-> EmptyWorld, entities |-> EmptyMap]

\* the map is cut down to the entry of one handle
Inverses_single(entities) ==
    {f \in UNION {[H -> DOMAIN entities] : H \in SUBSET Range(entities)} :
        /\ Cardinality(DOMAIN f) <= 1
        /\ Range(entities) # {} => DOMAIN f # {}
        /\ \A h \in DOMAIN f : entities[f[h]] = h}

\* `for (k, v) in &self.entities { entity_map.insert(*v, *k) }`: one uuid
\* per handle, the one inserted last; the order of a HashMap's iteration
\* is not fixed
Inverses(entities) ==
    {f \in [Range(entities) -> DOMAIN entities] :
        \A h \in DOMAIN f : entities[f[h]] = h}

\* the uuid made up for an entity that the inverse map does not hold
FreshUuid(entity) == IF entity = "e1" THEN "f1" ELSE "f2"

\* the identity an entity is written with
Identity(entity_map, entity) ==
    IF entity \in DOMAIN entity_map THEN entity_map[entity]
    ELSE FreshUuid(entity)

\* what is written for one entity: its identity and its components
EntityRecord(world, entity_map, entity) ==
    [uuid |-> Identity(entity_map, entity),
     comps |-> {<<c[2], c[3]>> : c \in {b \in world.comps : b[1] = entity}}]

\* the orders in which the archetype walker may come by the entities
Orders(S) ==
    {o \in [1..Cardinality(S) -> S] :
        \A i, j \in DOMAIN o : o[i] = o[j] => i = j}

\* legion::serialize::ser::serializable_world(&self.world, &serialize_impl)
serializable_world(world, entity_map) ==
    {[ok |-> TRUE,
      entities |-> [i \in DOMAIN o |-> EntityRecord(world, entity_map, o[i])]] :
        o \in Orders(world.live)}

\* the one field is written under the other name the reader declares
Struct_prefab_meta(form, key, value) ==
    [form |-> form, fields |-> <<[key |-> "prefab_meta", value |-> value]>>]

\* serialize_struct("CookedPrefab", 2), serialize_field("world", ..), end():
\* a format writes the struct as a map of named fields or as a sequence
Struct(form, key, value) ==
    [form |-> form, fields |-> <<[key |-> key, value |-> value]>>]

\* streams that no serialize has written: no field at all, a field that is
\* not the world, a world that fails to parse after some of its entities
BrokenWorlds ==
    {[ok |-> FALSE, entities |-> es] :
        es \in {<<>>, <<[uuid |-> "u1", comps |-> {<<"T", Default>>}]>>}}

OtherStreams ==
    {[form |-> form, fields |-> <<>>] : form \in {"map", "seq"}}
    \cup {Struct(form, "prefab_meta", w) : form \in {"map"}, w \in BrokenWorlds}
    \cup {Struct(form, "world", w) : form \in {"map", "seq"}, w \in BrokenWorlds}

\* the handles World::new() gives to the entities it is asked to create
NewHandles == <<"n1", "n2">>

\* entity_map.insert(uuid, entity): a later entry replaces an earlier one
Insert(map, uuid, h) ==
    [u \in DOMAIN map \cup {uuid} |-> IF u = uuid THEN h ELSE map[u]]

CookedState(pc, form, prefab, stream) ==
    [pc |-> pc, given |-> pc, form |-> form, prefab |-> prefab,
     entity_map |-> EmptyMap,
     stream |-> stream, world |-> EmptyWorld, entities |-> EmptyMap,
     k |-> 0, returned |-> FALSE, out |-> NoPrefab, ret |-> "Running"]

\* a prefab to be serialized with some format, or a stream from elsewhere
CookedInit ==
    /\ NoParse
    /\ NoComponents
    /\ NoRegistry
    /\ NoSeq /\ NoClone
    /\ \/ \E prefab \in CookedPrefabs, form \in {"map", "seq"} :
             cooked = CookedState("serialize", form, prefab,
                                  [form |-> form, fields |-> <<>>])
       \/ \E stream \in OtherStreams :
             cooked = CookedState("deserialize", stream.form, NoPrefab, stream)

\* impl Serialize for CookedPrefab
CookedPrefab_serialize ==
    /\ UNCHANGED <<parseVars, compVars, regVars, seqde, cloning>>
    /\ cooked.pc = "serialize"
    /\ \E entity_map \in Inverses(cooked.prefab.entities) :
          \E w \in serializable_world(cooked.prefab.world, entity_map) :
             cooked' = [cooked EXCEPT
                          !.pc = "deserialize",
                          !.entity_map = entity_map,
                          !.stream = Struct(cooked.form, "world", w)]

CookedDone(ret) == [cooked EXCEPT !.pc = "done", !.ret = ret]

\* PrefabDeserVisitor::visit_seq: next_element::<WorldDeser>()?.expect(..)
visit_seq ==
    /\ UNCHANGED <<parseVars, compVars, regVars, seqde, cloning>>
    /\ cooked.pc = "deserialize"
    /\ cooked.stream.form = "seq"
    /\ cooked' = IF cooked.stream.fields = <<>>
                  THEN CookedDone("Panic")
                  ELSE [cooked EXCEPT !.pc = "world"]

\* PrefabDeserVisitor::visit_map: the first key has to be `world`
visit_map ==
    /\ UNCHANGED <<parseVars, compVars, regVars, seqde, cloning>>
    /\ cooked.pc = "deserialize"
    /\ cooked.stream.form = "map"
    /\ cooked' = IF cooked.stream.fields = <<>>
                  THEN CookedDone("MissingField")
                  ELSE IF cooked.stream.fields[1].key # "world"
                  THEN CookedDone("UnknownField")
                  ELSE [cooked EXCEPT !.pc = "world"]

\* WorldDeser::deserialize, the deserializable world at work: the next
\* entity of the stream is created in the new world with its components
\* and its uuid is entered in the entity map
materialize ==
    /\ UNCHANGED <<parseVars, compVars, regVars, seqde, cloning>>
    /\ cooked.pc = "world"
    /\ cooked.k < Len(cooked.stream.fields[1].value.entities)
    /\ LET rec == cooked.stream.fields[1].value.entities[cooked.k + 1]
           h == NewHandles[cooked.k + 1]
       IN cooked' = [cooked EXCEPT
             !.k = @ + 1,
             !.world = [live |-> @.live \cup {h},
                        comps |-> @.comps
                           \cup {<<h, c[1], c[2]>> : c \in rec.comps}],
             !.entities = Insert(@, rec.uuid, h)]

\* the prefab is given a world of its own, not the one that was filled
ReturnedPrefab_new_world(world, entities) ==
    [world |-> EmptyWorld, entities |-> entities]

\* Ok(CookedPrefab { world: world_deser.0, entities: world_deser.1 })
ReturnedPrefab(world, entities) == [world |-> world, entities |-> entities]

\* what was built is handed back whether or not the world parsed
WorldDeser_return_kept ==
    /\ UNCHANGED <<parseVars, compVars, regVars, seqde, cloning>>
    /\ cooked.pc = "world"
    /\ cooked.k = Len(cooked.stream.fields[1].value.entities)
    /\ cooked' = [cooked EXCEPT
          !.pc = "done",
          !.ret = IF cooked.stream.fields[1].value.ok THEN "Ok" ELSE "Err",
          !.returned = TRUE,
          !.out = ReturnedPrefab(cooked.world, cooked.entities)]

\* the end of the world value: `?` on an error drops the world built so
\* far, otherwise Ok(CookedPrefab { world, entities })
WorldDeser_return ==
    /\ UNCHANGED <<parseVars, compVars, regVars, seqde, cloning>>
    /\ cooked.pc = "world"
    /\ cooked.k = Len(cooked.stream.fields[1].value.entities)
    /\ cooked' = IF cooked.stream.fields[1].value.ok
                  THEN [cooked EXCEPT
                          !.pc = "done", !.ret = "Ok", !.returned = TRUE,
                          !.out = ReturnedPrefab(cooked.world,
                                                 cooked.entities)]
                  ELSE CookedDone("Err")

CookedNext ==
    \/ CookedPrefab_serialize
    \/ visit_seq
    \/ visit_map
    \/ materialize
    \/ WorldDeser_return

SpecCooked == CookedInit /\ [][CookedNext]_vars

\* the components an entity carries, each with its kind
CompsOf(world, entity) ==
    {<<c[2], c[3]>> : c \in {b \in world.comps : b[1] = entity}}

Injective(f) == \A x, y \in DOMAIN f : f[x] = f[y] => x = y

\* a prefab was serialized and the stream read back to its end
RoundTrip == cooked.given = "serialize" /\ cooked.pc = "done"

\* the prefab that came back has the keys of the one serialized, each with
\* the components its entity had
SameByUuid ==
    /\ cooked.ret = "Ok"
    /\ cooked.returned
    /\ DOMAIN cooked.out.entities = DOMAIN cooked.prefab.entities
    /\ \A u \in DOMAIN cooked.prefab.entities :
          CompsOf(cooked.out.world, cooked.out.entities[u])
             = CompsOf(cooked.prefab.world, cooked.prefab.entities[u])

(* C21 as stated: for every CookedPrefab in which every entity of the      *)
(* world has an entry in the entity map, deserializing what serialize      *)
(* wrote gives the same EntityUuid keys, each with an entity carrying the  *)
(* same component values.                                                  *)
C21_CookedRoundTrip ==
    (/\ RoundTrip
     /\ cooked.prefab.world.live \subseteq Range(cooked.prefab.entities))
    => SameByUuid

(* C21, amended: the same, for every CookedPrefab whose entity map is      *)
(* one-to-one between its keys and the entities of the world (no two       *)
(* uuids for one entity, no key for a handle that is not live).            *)
C21_CookedRoundTripOneToOne ==
    (/\ RoundTrip
     /\ cooked.prefab.world.live = Range(cooked.prefab.entities)
     /\ Injective(cooked.prefab.entities))
    => SameByUuid

C21_Witness ==
    /\ RoundTrip
    /\ SameByUuid
    /\ Cardinality(DOMAIN cooked.prefab.entities) = 2
    /\ Injective(cooked.prefab.entities)
    /\ CompsOf(cooked.out.world, "n1") # CompsOf(cooked.out.world, "n2")
    /\ CompsOf(cooked.out.world, "n1") # {}

(* C22: every CookedPrefab that deserialization returns has a world made   *)
(* for this call, holding the entities of the stream and no other, and an  *)
(* entity map whose every key resolves to a live entity of that world.     *)
C22_ReturnedPrefabInvariant ==
    cooked.returned =>
        /\ Range(cooked.out.entities) \subseteq cooked.out.world.live
        /\ cooked.out.world.live \subseteq Range(NewHandles)
        /\ Cardinality(cooked.out.world.live)
              = Len(cooked.stream.fields[1].value.entities)
        /\ \A c \in cooked.out.world.comps : c[1] \in cooked.out.world.live

C22_Witness ==
    /\ cooked.returned
    /\ cooked.given = "serialize"
    /\ Cardinality(cooked.out.world.live) = 2
    /\ Cardinality(DOMAIN cooked.out.entities) = 2
    /\ cooked.prefab.entities = EmptyMap

(* C26: the inverse map built at serialization has one entry for each      *)
(* distinct handle of the entity map; inverse[entities[u]] = u holds for   *)
(* every key u exactly when the entity map is one-to-one; of two uuids     *)
(* with the same handle one is kept and the other is not written.          *)
C26_InverseMap ==
    (cooked.given = "serialize" /\ cooked.pc # "serialize") =>
        LET entities == cooked.prefab.entities
            inverse == cooked.entity_map
            written == {cooked.stream.fields[1].value.entities[i].uuid :
                           i \in DOMAIN cooked.stream.fields[1].value.entities}
        IN /\ DOMAIN inverse = Range(entities)
           /\ \A h \in DOMAIN inverse : entities[inverse[h]] = h
           /\ (\A u \in DOMAIN entities : inverse[entities[u]] = u)
                 <=> Injective(entities)
           /\ written \cap DOMAIN entities
                 = {inverse[h] : h \in DOMAIN inverse \cap cooked.prefab.world.live}

C26_Witness ==
    /\ cooked.given = "serialize"
    /\ cooked.pc = "done"
    /\ ~Injective(cooked.prefab.entities)
    /\ Range(cooked.prefab.entities) \subseteq cooked.prefab.world.live
    /\ DOMAIN cooked.out.entities = {"u2"}

(* C29: deserialization returns a CookedPrefab only when a world value was *)
(* parsed to its end: a map without keys gives a missing-field error, an   *)
(* error in the world is returned as an error, an empty sequence panics,   *)
(* and in none of these cases is the world or the entity map built so far  *)
(* returned.                                                               *)
C29_NoPartialPrefab ==
    /\ cooked.returned <=> cooked.ret = "Ok"
    /\ cooked.ret = "Ok" =>
          /\ cooked.stream.fields # <<>>
          /\ cooked.stream.fields[1].value.ok
          /\ cooked.k = Len(cooked.stream.fields[1].value.entities)
    /\ ~cooked.returned => cooked.out = NoPrefab
    /\ (cooked.pc = "done" /\ cooked.stream.fields = <<>>) =>
          cooked.ret = IF cooked.stream.form = "map"
                       THEN "MissingField" ELSE "Panic"
    /\ (/\ cooked.pc = "done"
        /\ cooked.stream.fields # <<>>
        /\ cooked.stream.fields[1].key = "world"
        /\ ~cooked.stream.fields[1].value.ok) => cooked.ret = "Err"

C29_Witness ==
    /\ cooked.ret = "Err"
    /\ cooked.world.live # {}
    /\ cooked.entities # EmptyMap
    /\ ~cooked.returned

====
